---------------------------- MODULE Spec2Model ----------------------------
(***************************************************************************)
(* Model of src/recipe_processor.py (class RecipeProcessor):               *)
(* clean_ingredient, extract_quantity_and_unit, categorize_ingredient,     *)
(* process_ingredients_list, merge_shopping_lists,                         *)
(* extract_cooking_instructions, generate_recipe_summary, and of the       *)
(* function generate_shopping_list_with_ai of src/app.py that drives them. *)
(*                                                                         *)
(* Python strings are sequences of one-character strings, ordered by code  *)
(* point.  The regular expressions of the source are kept as syntax trees  *)
(* and run by a backtracking matcher with the semantics of Python's re     *)
(* module (greedy quantifiers, ordered alternation, first match wins).     *)
(***************************************************************************)
EXTENDS Integers, Sequences, FiniteSets, TLC

VARIABLES
    ingredient,     \* the str handed to extract_quantity_and_unit / categorize_ingredient
    parsed,         \* <<the tuple extract_quantity_and_unit returned>>, <<>> before the call
    category,       \* <<the category categorize_ingredient returned>>, <<>> before the call
    ingredients,    \* the list of str handed to process_ingredients_list
    inputs,         \* the dicts the AI-list collaborator supplies: "B", "C"
    results,        \* call name -> <<the dict the call returned>>, <<>> before the call
    transcript,     \* the str handed to extract_cooking_instructions
    instructions,   \* <<the list extract_cooking_instructions returned>>, <<>> before the call
    recipe_data,    \* the dict handed to generate_recipe_summary
    summary,        \* <<the dict generate_recipe_summary returned>>, <<>> before the call
    app_inputs,     \* what generate_shopping_list_with_ai is called with and is given
    app_result,     \* <<the dict generate_shopping_list_with_ai returned>>, <<>> before the call
    heap,           \* the list and dict objects, by address
    invoked,        \* the method called on the objects, with the addresses of its arguments
    ret             \* <<the address of the object the method returned>>, <<>> before the call

instructionVars == <<transcript, instructions>>
summaryVars == <<recipe_data, summary>>
appVars == <<app_inputs, app_result>>
heapVars == <<heap, invoked, ret>>

vars == <<ingredient, parsed, category, ingredients, inputs, results,
          instructionVars, summaryVars, appVars, heapVars>>

-----------------------------------------------------------------------------
(* Python str                                                              *)

\* A TLA+ string literal as a Python str (sequence of characters).
Str(lit) == [i \in 1..Len(lit) |-> SubSeq(lit, i, i)]

Range(f) == {f[i] : i \in DOMAIN f}

\* The characters of the model, in runs of consecutive code points; each run
\* is given with the code point before its first character.
Runs ==
    << [base |-> 8,  chars |-> Str("\t\n")],
       [base |-> 31, chars |-> Str(" !")],
       [base |-> 43, chars |-> Str(",-./0123456789:")],
       [base |-> 60, chars |-> Str("=")],
       [base |-> 62, chars |-> Str("?")],
       [base |-> 64, chars |-> Str("ABCDEFGHIJKLMNOPQRSTUVWXYZ")],
       [base |-> 96, chars |-> Str("abcdefghijklmnopqrstuvwxyz")],
       [base |-> 232, chars |-> Str("é")] >>

Chars == UNION {Range(Runs[r].chars) : r \in DOMAIN Runs}

\* ord(c)
OrdTable ==
    [c \in Chars |->
        LET r == CHOOSE r \in DOMAIN Runs : c \in Range(Runs[r].chars)
        IN  Runs[r].base + (CHOOSE i \in DOMAIN Runs[r].chars : Runs[r].chars[i] = c)]

Ord(c) == OrdTable[c]

Uppercase == Str("ABCDEFGHIJKLMNOPQRSTUVWXYZ")
Lowercase == Str("abcdefghijklmnopqrstuvwxyz")

\* str.lower(), character by character
LowerChar(c) ==
    IF c \in Range(Uppercase)
    THEN Lowercase[CHOOSE i \in DOMAIN Uppercase : Uppercase[i] = c]
    ELSE c

Lower(s) == [i \in 1..Len(s) |-> LowerChar(s[i])]

\* Python's comparison of two str: lexicographic by code point.
RECURSIVE StrLess(_, _)
StrLess(a, b) ==
    IF Len(b) = 0 THEN FALSE
    ELSE IF Len(a) = 0 THEN TRUE
    ELSE IF a[1] # b[1] THEN Ord(a[1]) < Ord(b[1])
    ELSE StrLess(Tail(a), Tail(b))

\* kw in s
Contains(s, kw) ==
    \E i \in 1..(Len(s) - Len(kw) + 1) : SubSeq(s, i, i + Len(kw) - 1) = kw

\* The characters str.strip() removes and \s matches.
Whitespace == {" ", "\t", "\n"}

RECURSIVE LStrip(_)
LStrip(s) == IF Len(s) > 0 /\ s[1] \in Whitespace THEN LStrip(Tail(s)) ELSE s

RECURSIVE RStrip(_)
RStrip(s) ==
    IF Len(s) > 0 /\ s[Len(s)] \in Whitespace
    THEN RStrip(SubSeq(s, 1, Len(s) - 1))
    ELSE s

\* str.strip()
Strip(s) == RStrip(LStrip(s))

\* The str made of the words ws, each preceded by sep.
RECURSIVE Joined(_, _)
Joined(ws, sep) == IF Len(ws) = 0 THEN <<>> ELSE sep \o Head(ws) \o Joined(Tail(ws), sep)

\* sep.join(ws)
Join(ws, sep) == IF Len(ws) = 0 THEN <<>> ELSE Head(ws) \o Joined(Tail(ws), sep)

-----------------------------------------------------------------------------
(* Python re: syntax trees and the backtracking matcher                    *)

Lit(lit)     == [t |-> "lit", s |-> Str(lit)]       \* literal text
LitSeq(s)    == [t |-> "lit", s |-> s]
In(cs)       == [t |-> "in", cs |-> cs]             \* [...] and \d, \s
NotIn(cs)    == [t |-> "notin", cs |-> cs]          \* [^...] and .
Cat(ns)      == [t |-> "cat", ns |-> ns]            \* concatenation
Alt(ns)      == [t |-> "alt", ns |-> ns]            \* a|b|c, tried in order
Star(n)      == [t |-> "star", n |-> n]             \* n*, greedy, n a character class
Plus(n)      == [t |-> "cat", ns |-> <<n, Star(n)>>]    \* n+
Opt(n)       == [t |-> "alt", ns |-> <<n, Cat(<<>>)>>]  \* n?, greedy
Grp(g, n)    == [t |-> "cat", ns |-> <<[t |-> "open", g |-> g], n, [t |-> "close", g |-> g]>>]

Digit == In(Range(Str("0123456789")))   \* \d
Space == In(Whitespace)                 \* \s
Dot   == NotIn({"\n"})                  \* .

MaxGroups == 3

\* A matcher state: the position of the next character and the groups' spans.
NoMatch == [pos |-> 0, caps |-> [g \in 1..MaxGroups |-> <<0, 0>>]]
Start(i) == [pos |-> i, caps |-> [g \in 1..MaxGroups |-> <<0, 0>>]]

\* Does the character class node n match the character c?
ClassHas(n, c) == IF n.t = "in" THEN c \in n.cs ELSE c \notin n.cs

\* The number of consecutive characters of s from position i that n matches.
RunLength(n, s, i) ==
    LET stop == {j \in i..Len(s) : ~ClassHas(n, s[j])}
    IN  IF stop = {} THEN Len(s) - i + 1
        ELSE (CHOOSE j \in stop : \A j2 \in stop : j <= j2) - i

\* Backtrack(k, s, st): the first way (in the order Python's backtracking
\* explores them) to match the sequence of nodes k against s from st, or
\* NoMatch.
RECURSIVE Backtrack(_, _, _)
Backtrack(k, s, st) ==
    IF Len(k) = 0 THEN st
    ELSE
      LET n == Head(k)
          rest == Tail(k)
          i == st.pos
      IN  CASE n.t = "lit" ->
                 IF i + Len(n.s) - 1 <= Len(s) /\ SubSeq(s, i, i + Len(n.s) - 1) = n.s
                 THEN Backtrack(rest, s, [st EXCEPT !.pos = i + Len(n.s)])
                 ELSE NoMatch
            [] n.t = "in" ->
                 IF i <= Len(s) /\ s[i] \in n.cs
                 THEN Backtrack(rest, s, [st EXCEPT !.pos = i + 1])
                 ELSE NoMatch
            [] n.t = "notin" ->
                 IF i <= Len(s) /\ s[i] \notin n.cs
                 THEN Backtrack(rest, s, [st EXCEPT !.pos = i + 1])
                 ELSE NoMatch
            [] n.t = "cat" -> Backtrack(n.ns \o rest, s, st)
            [] n.t = "alt" ->
                 LET tries == {<<j, Backtrack(<<n.ns[j]>> \o rest, s, st)>> :
                                  j \in DOMAIN n.ns}
                     ok == {x \in tries : x[2].pos # 0}
                 IN  IF ok = {} THEN NoMatch
                     ELSE (CHOOSE x \in ok : \A y \in ok : x[1] <= y[1])[2]
            [] n.t = "star" ->
                 \* n.n is a character class: the repetition may take any
                 \* number of the characters of the run at i, most first.
                 LET run == RunLength(n.n, s, i)
                     tries == {<<c, Backtrack(rest, s, [st EXCEPT !.pos = i + c])>> :
                                  c \in 0..run}
                     ok == {x \in tries : x[2].pos # 0}
                 IN  IF ok = {} THEN NoMatch
                     ELSE (CHOOSE x \in ok : \A y \in ok : x[1] >= y[1])[2]
            [] n.t = "open" ->
                 Backtrack(rest, s, [st EXCEPT !.caps[n.g] = <<i, 0>>])
            [] n.t = "close" ->
                 Backtrack(rest, s, [st EXCEPT !.caps[n.g] = <<@[1], i>>])

\* re.match(pattern, s): anchored at the start of s, not at its end.
ReMatch(pattern, s) == Backtrack(<<pattern>>, s, Start(1))

Matched(m) == m.pos # 0

\* match.group(g)
Group(m, s, g) == SubSeq(s, m.caps[g][1], m.caps[g][2] - 1)

\* re.sub(pattern, repl, s) for a pattern that matches no empty string:
\* scan from the left, replace each match, copy every other character.
RECURSIVE ReSubFrom(_, _, _, _)
ReSubFrom(pattern, repl, s, i) ==
    IF i > Len(s) THEN <<>>
    ELSE LET m == Backtrack(<<pattern>>, s, Start(i))
         IN  IF Matched(m) /\ m.pos > i
             THEN repl \o ReSubFrom(pattern, repl, s, m.pos)
             ELSE <<s[i]>> \o ReSubFrom(pattern, repl, s, i + 1)

ReSub(pattern, repl, s) == ReSubFrom(pattern, repl, s, 1)

\* re.match in the place of re.search: only a match at the start of s counts.
ReSearchAnchored(pattern, s) == Backtrack(<<pattern>>, s, Start(1))

\* re.search(pattern, s): the match at the leftmost position that has one.
ReSearch(pattern, s) ==
    LET tries == {<<i, Backtrack(<<pattern>>, s, Start(i))>> : i \in 1..(Len(s) + 1)}
        ok == {x \in tries : x[2].pos # 0}
    IN  IF ok = {} THEN NoMatch
        ELSE (CHOOSE x \in ok : \A y \in ok : x[1] <= y[1])[2]

\* The leftmost match of pattern in s that starts at i or later, as
\* <<start, end>>; <<0, 0>> when there is none.
RECURSIVE NextMatch(_, _, _)
NextMatch(pattern, s, i) ==
    IF i > Len(s) THEN <<0, 0>>
    ELSE LET m == Backtrack(<<pattern>>, s, Start(i))
         IN  IF Matched(m) /\ m.pos > i THEN <<i, m.pos>>
             ELSE NextMatch(pattern, s, i + 1)

\* re.split(pattern, s) for a pattern without groups that matches no empty
\* string: the pieces of s between the successive matches.
RECURSIVE ReSplitFrom(_, _, _)
ReSplitFrom(pattern, s, i) ==
    LET m == NextMatch(pattern, s, i)
    IN  IF m[1] = 0 THEN <<SubSeq(s, i, Len(s))>>
        ELSE <<SubSeq(s, i, m[1] - 1)>> \o ReSplitFrom(pattern, s, m[2])

ReSplit(pattern, s) == ReSplitFrom(pattern, s, 1)

-----------------------------------------------------------------------------
(* Python dict (insertion-ordered) and list helpers                        *)

\* A dict is the sequence of its [key, value] entries in insertion order.
EmptyDict == <<>>

Entry(k, items) == [key |-> k, value |-> items]

Keys(d) == {d[i].key : i \in DOMAIN d}

KeyList(d) == [i \in DOMAIN d |-> d[i].key]

\* d[k], for k in d
Get(d, k) == d[CHOOSE i \in DOMAIN d : d[i].key = k].value

\* d[k] = v
Put(d, k, v) ==
    IF k \in Keys(d)
    THEN [i \in DOMAIN d |-> IF d[i].key = k THEN [key |-> k, value |-> v] ELSE d[i]]
    ELSE Append(d, [key |-> k, value |-> v])

\* d.get(k, default)
DictGet(d, k, default) == IF k \in Keys(d) THEN Get(d, k) ELSE default

\* d[k], for d a defaultdict(list)
GetList(d, k) == IF k \in Keys(d) THEN Get(d, k) ELSE <<>>

\* sorted(list(set(xs))): the distinct elements of xs in ascending order.
RECURSIVE SortedSet(_)
SortedSet(S) ==
    IF S = {} THEN <<>>
    ELSE LET m == CHOOSE x \in S : \A y \in S \ {x} : StrLess(x, y)
         IN  <<m>> \o SortedSet(S \ {m})

\* list(set(xs)) without sorted(): the distinct elements as first met.
RECURSIVE ListSetUnsorted(_)
ListSetUnsorted(xs) ==
    IF Len(xs) = 0 THEN <<>>
    ELSE LET init == ListSetUnsorted(SubSeq(xs, 1, Len(xs) - 1))
         IN  IF xs[Len(xs)] \in Range(init) THEN init ELSE Append(init, xs[Len(xs)])

SortedListSet(xs) == SortedSet(Range(xs))

Reverse(xs) == [i \in DOMAIN xs |-> xs[Len(xs) + 1 - i]]

\* xs[n:] + xs[:n]
Rotate(xs, n) == SubSeq(xs, n + 1, Len(xs)) \o SubSeq(xs, 1, n)

\* All the sequences that list each element of S once.
RECURSIVE Orderings(_)
Orderings(S) ==
    IF S = {} THEN {<<>>}
    ELSE UNION {{<<x>> \o q : q \in Orderings(S \ {x})} : x \in S}

MaxPermuted == 3

\* list(xs) without set(): every element kept, repeats included.
ListOnly(xs) == {xs}

\* list(set(xs)): the distinct elements of xs in the iteration order of the
\* set, which depends on the hashes of the elements and is any order; for
\* more than MaxPermuted elements four of the orders are taken.
ListSet(xs) ==
    IF Cardinality(Range(xs)) <= MaxPermuted THEN Orderings(Range(xs))
    ELSE LET ascending == SortedListSet(xs)
         IN  {ascending, Reverse(ascending),
              Rotate(ascending, Len(ascending) \div 2),
              Reverse(Rotate(ascending, Len(ascending) \div 2))}

-----------------------------------------------------------------------------
(* RecipeProcessor.__init__                                                *)

\* self.food_categories, in the insertion order of the dict literal.
food_categories ==
    << [key |-> "Produce", value |->
          << Str("onion"), Str("garlic"), Str("tomato"), Str("carrot"), Str("celery"),
             Str("pepper"), Str("lettuce"), Str("spinach"), Str("broccoli"),
             Str("mushroom"), Str("lemon"), Str("lime"), Str("apple"), Str("banana"),
             Str("potato"), Str("herbs") >>],
       [key |-> "Meat & Seafood", value |->
          << Str("chicken"), Str("beef"), Str("pork"), Str("fish"), Str("salmon"),
             Str("shrimp"), Str("turkey"), Str("bacon"), Str("ground beef"),
             Str("sausage"), Str("lamb") >>],
       [key |-> "Dairy & Eggs", value |->
          << Str("milk"), Str("cheese"), Str("butter"), Str("yogurt"), Str("cream"),
             Str("eggs"), Str("sour cream"), Str("mozzarella"), Str("parmesan"),
             Str("cheddar") >>],
       [key |-> "Pantry Staples", value |->
          << Str("flour"), Str("sugar"), Str("salt"), Str("pepper"), Str("oil"),
             Str("vinegar"), Str("pasta"), Str("rice"), Str("beans"), Str("spices"),
             Str("sauce"), Str("stock"), Str("broth") >>],
       [key |-> "Frozen", value |->
          << Str("frozen vegetables"), Str("frozen fruit"), Str("ice cream"),
             Str("frozen pizza") >>],
       [key |-> "Bakery", value |->
          << Str("bread"), Str("rolls"), Str("bagels"), Str("croissants"),
             Str("tortillas") >>],
       [key |-> "Condiments", value |->
          << Str("ketchup"), Str("mustard"), Str("mayo"), Str("hot sauce"),
             Str("soy sauce"), Str("worcestershire") >>] >>

\* self.units, in list order.
units ==
    << Str("cup"), Str("cups"), Str("tablespoon"), Str("tablespoons"), Str("tbsp"),
       Str("teaspoon"), Str("teaspoons"), Str("tsp"),
       Str("ounce"), Str("ounces"), Str("oz"), Str("pound"), Str("pounds"), Str("lb"),
       Str("lbs"), Str("gram"), Str("grams"), Str("g"),
       Str("kilogram"), Str("kg"), Str("milliliter"), Str("ml"), Str("liter"),
       Str("liters"), Str("pint"), Str("quart"), Str("gallon"),
       Str("pinch"), Str("dash"), Str("handful"), Str("clove"), Str("cloves"),
       Str("piece"), Str("pieces"), Str("slice"), Str("slices") >>

-----------------------------------------------------------------------------
(* RecipeProcessor.clean_ingredient                                        *)

\* r'\s+'
whitespace_run == Plus(Space)

clean_ingredient(raw) == Lower(ReSub(whitespace_run, Str(" "), Strip(raw)))

-----------------------------------------------------------------------------
(* RecipeProcessor.extract_quantity_and_unit                               *)

\* \d+(?:\.\d+)?
number == Cat(<<Plus(Digit), Opt(Cat(<<Lit("."), Plus(Digit)>>))>>)

\* \d+(?:\.\d+)?(?:\s*[-/]\s*\d+(?:\.\d+)?)?
quantity_re ==
    Cat(<<number, Opt(Cat(<<Star(Space), In({"-", "/"}), Star(Space), number>>))>>)

\* '|'.join(self.units)
units_alternation == Alt([i \in DOMAIN units |-> LitSeq(units[i])])

\* (quantity)\s*(unit|unit|...)\s*(?:of\s+)?(.+)
pattern ==
    Cat(<< Grp(1, quantity_re), Star(Space), Grp(2, units_alternation), Star(Space),
           Opt(Cat(<<Lit("of"), Plus(Space)>>)), Grp(3, Plus(Dot)) >>)

\* (quantity)\s+(.+)
quantity_pattern == Cat(<< Grp(1, quantity_re), Plus(Space), Grp(2, Plus(Dot)) >>)

\* The fall-through returning the lower-cased string instead of the argument.
extract_quantity_and_unit_lowered(s) ==
    LET low == Lower(s)
        match == ReMatch(pattern, low)
        match2 == ReMatch(quantity_pattern, low)
    IN  IF Matched(match)
        THEN [quantity |-> Group(match, low, 1), unit |-> Group(match, low, 2),
              item |-> Group(match, low, 3)]
        ELSE IF Matched(match2)
        THEN [quantity |-> Group(match2, low, 1), unit |-> <<>>,
              item |-> Group(match2, low, 2)]
        ELSE [quantity |-> <<>>, unit |-> <<>>, item |-> low]

\* The returned tuple (quantity, unit, item).
extract_quantity_and_unit(s) ==
    LET low == Lower(s)
        match == ReMatch(pattern, low)
        match2 == ReMatch(quantity_pattern, low)
    IN  IF Matched(match)
        THEN [quantity |-> Group(match, low, 1), unit |-> Group(match, low, 2),
              item |-> Group(match, low, 3)]
        ELSE IF Matched(match2)
        THEN [quantity |-> Group(match2, low, 1), unit |-> <<>>,
              item |-> Group(match2, low, 2)]
        ELSE [quantity |-> <<>>, unit |-> <<>>, item |-> s]

-----------------------------------------------------------------------------
(* RecipeProcessor.categorize_ingredient                                   *)

\* The two nested for loops, from category c and keyword k on: the category
\* of the first keyword found in ingredient_lower, "Other" when the loops end.
RECURSIVE categorize_from(_, _, _)
categorize_from(ingredient_lower, c, k) ==
    IF c > Len(food_categories) THEN "Other"
    ELSE IF \E k2 \in k..Len(food_categories[c].value) :
                Contains(ingredient_lower, food_categories[c].value[k2])
         THEN food_categories[c].key
    ELSE categorize_from(ingredient_lower, c + 1, 1)

\* The loops without the early return: the last keyword found decides.
categorize_last_match(s) ==
    LET hits == {c \in DOMAIN food_categories :
                    \E k \in DOMAIN food_categories[c].value :
                        Contains(Lower(s), food_categories[c].value[k])}
    IN  IF hits = {} THEN "Other"
        ELSE food_categories[CHOOSE c \in hits : \A c2 \in hits : c >= c2].key

\* The keyword compared with the whole string instead of searched in it.
categorize_whole_string(s) ==
    LET hits == {c \in DOMAIN food_categories :
                    \E k \in DOMAIN food_categories[c].value :
                        Lower(s) = food_categories[c].value[k]}
    IN  IF hits = {} THEN "Other"
        ELSE food_categories[CHOOSE c \in hits : \A c2 \in hits : c <= c2].key

\* The loops over the string as given, without lower().
categorize_case_sensitive(s) == categorize_from(s, 1, 1)

categorize_ingredient(s) == categorize_from(Lower(s), 1, 1)

-----------------------------------------------------------------------------
(* RecipeProcessor.process_ingredients_list                                *)

\* The filter off by one: len(cleaned) > 3.
MinLengthOffByOne == 2 + 1

\* The length a cleaned ingredient must exceed to be kept.
MinLength == 2

\* The first for loop, from ingredient i on, over the defaultdict categorized.
RECURSIVE categorize_all(_, _, _)
categorize_all(ings, i, categorized) ==
    IF i > Len(ings) THEN categorized
    ELSE LET clean == clean_ingredient(ings[i])
             cat == categorize_ingredient(clean)
         IN  IF Len(clean) > MinLength
             THEN categorize_all(ings, i + 1,
                     Put(categorized, cat, Append(GetList(categorized, cat), clean)))
             ELSE categorize_all(ings, i + 1, categorized)

\* The list literal the second for loop iterates.
category_order ==
    << "Produce", "Meat & Seafood", "Dairy & Eggs", "Pantry Staples", "Bakery",
       "Condiments", "Frozen", "Other" >>

\* The second for loop, from position c of category_order on.
RECURSIVE sort_categories(_, _, _)
sort_categories(categorized, c, result) ==
    IF c > Len(category_order) THEN result
    ELSE IF category_order[c] \in Keys(categorized)
         THEN sort_categories(categorized, c + 1,
                 Put(result, category_order[c],
                     SortedListSet(Get(categorized, category_order[c]))))
    ELSE sort_categories(categorized, c + 1, result)

process_ingredients_list(ings) ==
    sort_categories(categorize_all(ings, 1, EmptyDict), 1, EmptyDict)

-----------------------------------------------------------------------------
(* RecipeProcessor.merge_shopping_lists                                    *)

\* merged[category] = items instead of merged[category].extend(items).
RECURSIVE extend_all_overwriting(_, _, _)
extend_all_overwriting(shopping_list, e, merged) ==
    IF e > Len(shopping_list) THEN merged
    ELSE extend_all_overwriting(shopping_list, e + 1,
            Put(merged, shopping_list[e].key, shopping_list[e].value))

\* The inner for loop: merged[category].extend(items) for the entries of
\* shopping_list from entry e on.
RECURSIVE extend_all(_, _, _)
extend_all(shopping_list, e, merged) ==
    IF e > Len(shopping_list) THEN merged
    ELSE extend_all(shopping_list, e + 1,
            Put(merged, shopping_list[e].key,
                GetList(merged, shopping_list[e].key) \o shopping_list[e].value))

\* A merge of two lists only: the arguments after the second are ignored.
RECURSIVE merge_first_two(_, _, _)
merge_first_two(lists, l, merged) ==
    IF l > Len(lists) \/ l > 2 THEN merged
    ELSE merge_first_two(lists, l + 1, extend_all(lists[l], 1, merged))

\* The outer for loop over *lists, from list l on.
RECURSIVE merge_all(_, _, _)
merge_all(lists, l, merged) ==
    IF l > Len(lists) THEN merged
    ELSE merge_all(lists, l + 1, extend_all(lists[l], 1, merged))

\* The last for loop: result[category] = sorted(list(set(items))).
dedupe_and_sort(merged) ==
    [e \in DOMAIN merged |->
        [key |-> merged[e].key, value |-> SortedListSet(merged[e].value)]]

merge_shopping_lists(lists) == dedupe_and_sort(merge_all(lists, 1, EmptyDict))

-----------------------------------------------------------------------------
(* extract_cooking_instructions                                            *)

\* r'[.!?]+'
sentence_end == Plus(In({".", "!", "?"}))

\* sentences = re.split(r'[.!?]+', transcript)
sentences(text) == ReSplit(sentence_end, text)

\* instruction_patterns: each is a group of alternatives followed by .*
instruction_patterns ==
    << Cat(<<Grp(1, Alt(<<Lit("first"), Lit("then"), Lit("next"), Lit("after"),
                          Lit("now"), Lit("finally")>>)), Star(Dot)>>),
       Cat(<<Grp(1, Alt(<<Lit("heat"), Lit("cook"), Lit("add"), Lit("mix"),
                          Lit("stir"), Lit("pour"), Lit("place"), Lit("put"),
                          Lit("season"), Lit("serve")>>)), Star(Dot)>>),
       Cat(<<Grp(1, Alt(<<Lit("preheat"), Lit("boil"), Lit("simmer"), Lit("sauté"),
                          Lit("fry"), Lit("bake"), Lit("roast"), Lit("grill")>>)),
             Star(Dot)>>) >>

\* len(sentence) > 10
MinSentenceLength == 10

\* instructions[:10]
MaxInstructions == 10

\* The inner for loop with its break: does some pattern find a match in
\* sentence.lower()?
is_instruction(sentence) ==
    \E p \in DOMAIN instruction_patterns :
        Matched(ReSearch(instruction_patterns[p], Lower(sentence)))

\* The outer for loop from sentence number i on: the stripped sentences that
\* are long enough and match, appended in turn.
RECURSIVE collect_instructions(_, _)
collect_instructions(pieces, i) ==
    IF i > Len(pieces) THEN <<>>
    ELSE LET sentence == Strip(pieces[i])
         IN  IF Len(sentence) > MinSentenceLength /\ is_instruction(sentence)
             THEN <<sentence>> \o collect_instructions(pieces, i + 1)
             ELSE collect_instructions(pieces, i + 1)

\* xs[:n]
Take(xs, n) == SubSeq(xs, 1, IF Len(xs) < n THEN Len(xs) ELSE n)

\* extract_cooking_instructions with instructions[-10:] for instructions[:10].
extract_cooking_instructions_last(text) ==
    LET found == collect_instructions(sentences(text), 1)
    IN  SubSeq(found, IF Len(found) < MaxInstructions THEN 1
                      ELSE Len(found) - MaxInstructions + 1, Len(found))

extract_cooking_instructions(text) ==
    Take(collect_instructions(sentences(text), 1), MaxInstructions)

-----------------------------------------------------------------------------
(* generate_recipe_summary                                                 *)

\* if transcript:
Truthy(text) == Len(text) > 0

\* f"https://www.youtube.com/watch?v={video.get('video_id', '')}"
video_url(video) ==
    Str("https://www.youtube.com/watch?v=") \o DictGet(video, "video_id", <<>>)

\* The dict literal tutorial = {...}.
tutorial_of(video) ==
    << Entry("title", DictGet(video, "title", <<>>)),
       Entry("video_id", DictGet(video, "video_id", <<>>)),
       Entry("channel", DictGet(video, "channel_title", <<>>)),
       Entry("url", video_url(video)) >>

\* for video in recipe_data.get("videos", []) with the test of its
\* transcript left out: every video extends both lists.
RECURSIVE collect_from_every_video(_, _, _, _)
collect_from_every_video(videos, i, cooking, tutorials) ==
    IF i > Len(videos) THEN [cooking_instructions |-> cooking, video_tutorials |-> tutorials]
    ELSE collect_from_every_video(videos, i + 1,
             cooking \o extract_cooking_instructions(DictGet(videos[i], "transcript", <<>>)),
             Append(tutorials, tutorial_of(videos[i])))

\* for video in recipe_data.get("videos", []), from video number i on:
\* the two lists of the summary as the loop extends them.
RECURSIVE collect_from_videos(_, _, _, _)
collect_from_videos(videos, i, cooking, tutorials) ==
    IF i > Len(videos) THEN [cooking_instructions |-> cooking, video_tutorials |-> tutorials]
    ELSE LET text == DictGet(videos[i], "transcript", <<>>)
         IN  IF Truthy(text)
             THEN collect_from_videos(videos, i + 1,
                      cooking \o extract_cooking_instructions(text),
                      Append(tutorials, tutorial_of(videos[i])))
             ELSE collect_from_videos(videos, i + 1, cooking, tutorials)

\* [:15]
MaxSummaryInstructions == 15

\* The cooking instructions of all the videos of data, before line 197.
all_instructions(data) ==
    collect_from_videos(DictGet(data, "videos", <<>>), 1, <<>>, <<>>).cooking_instructions

\* generate_recipe_summary(data), where listed is the list that
\* list(set(summary["cooking_instructions"])) builds.
generate_recipe_summary(data, listed) ==
    LET videos == DictGet(data, "videos", <<>>)
        loop == collect_from_videos(videos, 1, <<>>, <<>>)
    IN  << Entry("dish_name", DictGet(data, "dish_name", Str("Unknown Dish"))),
           Entry("total_videos", Len(videos)),
           Entry("categorized_ingredients",
                 process_ingredients_list(DictGet(data, "ingredients", <<>>))),
           Entry("cooking_instructions", Take(listed, MaxSummaryInstructions)),
           Entry("video_tutorials", loop.video_tutorials) >>

-----------------------------------------------------------------------------
(* The methods on objects: which lists and dicts they create and change    *)

\* The heap is the sequence of the list and dict objects created so far; the
\* address of an object is its position.  A cell of an object holds a str or
\* the address of an object, and in a dict also its key.
Val(k, v) == [key |-> k, value |-> v, ref |-> 0]
Ptr(k, a) == [key |-> k, value |-> <<>>, ref |-> a]

\* [], {}, list(...), sorted(...): a new object, at address Len(h) + 1.
New(h, kind, cells) == Append(h, [kind |-> kind, cells |-> cells])

StrCells(xs) == [i \in DOMAIN xs |-> Val("", xs[i])]

\* The strs of the list at a.
Strs(h, a) == [i \in DOMAIN h[a].cells |-> h[a].cells[i].value]

\* list.extend and list.append on the list at a, in place.
Extend(h, a, cells) == [h EXCEPT ![a].cells = @ \o cells]

\* k in d
HasKey(h, d, k) == \E i \in DOMAIN h[d].cells : h[d].cells[i].key = k

\* d[k], for k in d
Item(h, d, k) == h[d].cells[CHOOSE i \in DOMAIN h[d].cells : h[d].cells[i].key = k]

\* d[cell.key] = ... on the dict at d, in place.
SetItem(h, d, cell) ==
    IF HasKey(h, d, cell.key)
    THEN [h EXCEPT ![d].cells =
             [i \in DOMAIN @ |-> IF @[i].key = cell.key THEN cell ELSE @[i]]]
    ELSE Extend(h, d, <<cell>>)

\* A list of str as an object.
StoredList(h, xs) == New(h, "list", StrCells(xs))

\* A dict of lists of str as objects: its lists, then the dict itself.
StoredDict(h, d) ==
    New(h \o [i \in DOMAIN d |-> [kind |-> "list", cells |-> StrCells(d[i].value)]],
        "dict", [i \in DOMAIN d |-> Ptr(d[i].key, Len(h) + i)])

\* d[k] on the defaultdict(list) at d: a missing key gets a new list.
default_entry(h, d, k) ==
    IF HasKey(h, d, k) THEN h
    ELSE SetItem(New(h, "list", <<>>), d, Ptr(k, Len(h) + 1))

\* if category not in merged: merged[category] = items
\* else: merged[category].extend(items)
extend_entry_shared(h, merged, k, items) ==
    IF HasKey(h, merged, k)
    THEN Extend(h, Item(h, merged, k).ref, h[items].cells)
    ELSE SetItem(h, merged, Ptr(k, items))

\* merged[category].extend(items)
extend_entry(h, merged, k, items) ==
    LET h1 == default_entry(h, merged, k)
    IN  Extend(h1, Item(h1, merged, k).ref, h1[items].cells)

\* The two for loops of merge_shopping_lists, from entry n of entries on;
\* entries are the items() of the dicts in lists, in turn.
RECURSIVE heap_extend_all(_, _, _, _)
heap_extend_all(h, merged, entries, n) ==
    IF n > Len(entries) THEN h
    ELSE heap_extend_all(extend_entry(h, merged, entries[n].key, entries[n].ref),
                         merged, entries, n + 1)

\* The last for loop of merge_shopping_lists, from entry n of merged on.
RECURSIVE heap_dedupe_and_sort(_, _, _, _)
heap_dedupe_and_sort(h, merged, result, n) ==
    IF n > Len(h[merged].cells) THEN h
    ELSE LET entry == h[merged].cells[n]
             h1 == New(h, "list", StrCells(SortedListSet(Strs(h, entry.ref))))
         IN  heap_dedupe_and_sort(SetItem(h1, result, Ptr(entry.key, Len(h1))),
                                  merged, result, n + 1)

\* merge_shopping_lists(*lists), lists the addresses of the dicts: the heap
\* it leaves and the address it returns.
heap_merge_shopping_lists(h, lists) ==
    LET h1 == New(h, "dict", <<>>)
        merged == Len(h1)
        h2 == heap_extend_all(h1, merged,
                              Join([i \in DOMAIN lists |-> h[lists[i]].cells], <<>>), 1)
        h3 == New(h2, "dict", <<>>)
    IN  [heap |-> heap_dedupe_and_sort(h3, merged, Len(h3), 1), ret |-> Len(h3)]

\* categorized[category].append(clean)
append_entry(h, categorized, k, clean) ==
    LET h1 == default_entry(h, categorized, k)
    IN  Extend(h1, Item(h1, categorized, k).ref, <<Val("", clean)>>)

\* The first for loop of process_ingredients_list, from ingredient i on.
RECURSIVE heap_categorize_all(_, _, _, _)
heap_categorize_all(h, categorized, ings, i) ==
    IF i > Len(ings) THEN h
    ELSE LET kept(clean) ==
                 IF Len(clean) > MinLength
                 THEN append_entry(h, categorized, categorize_ingredient(clean), clean)
                 ELSE h
         IN  heap_categorize_all(kept(clean_ingredient(ings[i])), categorized, ings, i + 1)

\* The second for loop of process_ingredients_list, from position c on.
RECURSIVE heap_sort_categories(_, _, _, _)
heap_sort_categories(h, categorized, result, c) ==
    IF c > Len(category_order) THEN h
    ELSE IF HasKey(h, categorized, category_order[c])
    THEN LET items == Strs(h, Item(h, categorized, category_order[c]).ref)
             h1 == New(h, "list", StrCells(SortedListSet(items)))
         IN  heap_sort_categories(SetItem(h1, result, Ptr(category_order[c], Len(h1))),
                                  categorized, result, c + 1)
    ELSE heap_sort_categories(h, categorized, result, c + 1)

\* process_ingredients_list(ingredients), ingredients the address of the list.
heap_process_ingredients_list(h, ings) ==
    LET h1 == New(h, "dict", <<>>)
        sorted(h2) ==
            [heap |-> heap_sort_categories(New(h2, "dict", <<>>), Len(h1), Len(h2) + 1, 1),
             ret |-> Len(h2) + 1]
    IN  sorted(heap_categorize_all(h1, Len(h1), Strs(h, ings), 1))

\* The dict at a as a dict of strs.
StrDict(h, a) == [i \in DOMAIN h[a].cells |-> Entry(h[a].cells[i].key, h[a].cells[i].value)]

\* for video in recipe_data.get("videos", []), from video number i on;
\* videos holds the addresses of the video dicts.
RECURSIVE heap_collect_from_videos(_, _, _, _)
heap_collect_from_videos(h, made, videos, i) ==
    IF i > Len(videos) THEN h
    ELSE LET video == StrDict(h, videos[i])
             text == DictGet(video, "transcript", <<>>)
             collected(h1) ==
                 LET h2 == Extend(h1, Item(h1, made, "cooking_instructions").ref,
                                  h1[Len(h1)].cells)
                     h3 == New(h2, "dict", [e \in DOMAIN tutorial_of(video) |->
                               Val(tutorial_of(video)[e].key, tutorial_of(video)[e].value)])
                 IN  Extend(h3, Item(h3, made, "video_tutorials").ref, <<Ptr("", Len(h3))>>)
         IN  IF Truthy(text)
             THEN heap_collect_from_videos(
                      collected(New(h, "list", StrCells(extract_cooking_instructions(text)))),
                      made, videos, i + 1)
             ELSE heap_collect_from_videos(h, made, videos, i + 1)

\* generate_recipe_summary(recipe_data) up to line 195, data the address of
\* recipe_data: the heap it leaves and the address of summary.
heap_summary_before_listing(h, data) ==
    LET videos == IF HasKey(h, data, "videos")
                  THEN [i \in DOMAIN h[Item(h, data, "videos").ref].cells |->
                           h[Item(h, data, "videos").ref].cells[i].ref]
                  ELSE <<>>
        h1 == New(New(New(h, "dict", <<>>), "list", <<>>), "list", <<>>)
        h2 == New(h1, "dict",
                  << Val("dish_name", IF HasKey(h, data, "dish_name")
                                      THEN Item(h, data, "dish_name").value
                                      ELSE Str("Unknown Dish")),
                     Val("total_videos", <<Len(videos)>>),
                     Ptr("categorized_ingredients", Len(h) + 1),
                     Ptr("cooking_instructions", Len(h) + 2),
                     Ptr("video_tutorials", Len(h) + 3) >>)
        made == Len(h2)
        h3 == IF HasKey(h, data, "ingredients") THEN h2 ELSE New(h2, "list", <<>>)
        all_ingredients == IF HasKey(h, data, "ingredients")
                           THEN Item(h, data, "ingredients").ref ELSE Len(h3)
        h4(processed) ==
            SetItem(processed.heap, made, Ptr("categorized_ingredients", processed.ret))
    IN  [heap |-> heap_collect_from_videos(
                      h4(heap_process_ingredients_list(h3, all_ingredients)),
                      made, videos, 1),
         ret |-> made]

\* summary["cooking_instructions"] = list(set(summary["cooking_instructions"]))[:15]
\* on what the lines before it leave: one outcome for each list that
\* list(set(...)) may build.
heap_list_instructions(before) ==
    {[heap |-> SetItem(New(before.heap, "list",
                           StrCells(Take(listed, MaxSummaryInstructions))),
                       before.ret, Ptr("cooking_instructions", Len(before.heap) + 1)),
      ret |-> before.ret] :
        listed \in ListSet(Strs(before.heap,
                                Item(before.heap, before.ret, "cooking_instructions").ref))}

\* generate_recipe_summary(recipe_data): the heaps it may leave, each with
\* the address of summary.
heap_generate_recipe_summary(h, data) ==
    heap_list_instructions(heap_summary_before_listing(h, data))

-----------------------------------------------------------------------------
(* generate_shopping_list_with_ai (src/app.py)                             *)

\* result and all_ingredients before the loop over the dishes.
nothing_collected ==
    [all_ingredients |-> <<>>, video_tutorials |-> <<>>, cooking_instructions |-> <<>>,
     recipe_data |-> EmptyDict]

\* for dish in dishes, from dish number i on.  dishes[i].recipe is what
\* youtube_collector.get_recipe_data(dish) returns, listings[i] the list
\* that list(set(...)) builds inside generate_recipe_summary.
RECURSIVE collect_dishes(_, _, _, _)
collect_dishes(dishes, listings, i, found) ==
    IF i > Len(dishes) THEN found
    ELSE LET data == dishes[i].recipe
             made == generate_recipe_summary(data, listings[i])
         IN  IF Len(data) = 0 THEN collect_dishes(dishes, listings, i + 1, found)
             ELSE collect_dishes(dishes, listings, i + 1,
                    [all_ingredients |->
                         found.all_ingredients \o DictGet(data, "ingredients", <<>>),
                     video_tutorials |->
                         found.video_tutorials \o DictGet(made, "video_tutorials", <<>>),
                     cooking_instructions |->
                         found.cooking_instructions
                             \o DictGet(made, "cooking_instructions", <<>>),
                     recipe_data |-> Put(found.recipe_data, dishes[i].dish, made)])

\* generate_shopping_list_with_ai.  youtube stands for
\* use_youtube and YOUTUBE_AVAILABLE and youtube_collector.youtube, ai_list
\* for what generate_ai_shopping_list returns.
generate_shopping_list_with_ai(youtube, dishes, listings, ai_list) ==
    LET found == IF youtube THEN collect_dishes(dishes, listings, 1, nothing_collected)
                 ELSE nothing_collected
        youtube_list == IF Len(found.all_ingredients) > 0
                        THEN process_ingredients_list(found.all_ingredients)
                        ELSE EmptyDict
    IN  [shopping_list |-> IF Len(youtube_list) > 0
                           THEN merge_shopping_lists(<<youtube_list, ai_list>>)
                           ELSE ai_list,
         video_tutorials |-> found.video_tutorials,
         cooking_instructions |-> found.cooking_instructions,
         recipe_data |-> found.recipe_data]

-----------------------------------------------------------------------------
(* Inputs                                                                  *)

\* All sequences over S of length at most n.
RECURSIVE SeqsUpTo(_, _)
SeqsUpTo(S, n) ==
    IF n = 0 THEN {<<>>}
    ELSE LET shorter == SeqsUpTo(S, n - 1)
         IN  shorter \cup {Append(q, x) : q \in shorter, x \in S}

MaxItemWords == 2
MaxWords == 2
MaxIngredients == 2

\* Numeric quantities as an ingredient line writes them.
QuantityTexts == {Str("2"), Str("1/2"), Str("2.5"), Str("1 - 2")}

\* The word that follows the quantity: unit words, and words that are not.
FirstWords ==
    {Str("cups"), Str("cup"), Str("g"), Str("garlic"), Str("Tbsp"), Str("pinch"),
     Str("green")}

ItemWords ==
    {Str("of"), Str("milk"), Str("salt"), Str("chopped"), Str("onions"), Str("bulbs")}

\* The strings handed to extract_quantity_and_unit: an optional article, an
\* optional quantity, an optional space, a word, and up to MaxItemWords words.
ParserInputs ==
    {lead \o q \o gap \o w \o Joined(tail, Str(" ")) :
        lead \in {<<>>, Str("a ")},
        q \in QuantityTexts \cup {<<>>},
        gap \in {<<>>, Str(" ")},
        w \in FirstWords \cup {<<>>},
        tail \in SeqsUpTo(ItemWords, MaxItemWords)}

ClassifierWords ==
    {Str("salmon"), Str("onion"), Str("Lemon"), Str("Bread"), Str("frozen pizza"),
     Str("soy sauce"), Str("xyzzy plugh"), Str("MILK"), Str("pepper"), Str("mustard")}

\* The strings handed to categorize_ingredient: up to MaxWords phrases.
ClassifierInputs ==
    {Join(ws, Str(" ")) : ws \in SeqsUpTo(ClassifierWords, MaxWords)}

\* Raw ingredient strings as the recipe collector extracts them.
RawIngredients ==
    {Str("Salmon"), Str(" Red \t Onion\n"), Str("red onion"), Str(" ab "), Str("ham")}

IngredientLists == SeqsUpTo(RawIngredients, MaxIngredients)

\* Dicts as the AI-list collaborator returns them: any keys, items in any
\* order, repeated items and empty lists included.
AiLists ==
    { EmptyDict,
      << Entry("Produce", <<Str("red onion"), Str("apple"), Str("red onion")>>) >>,
      << Entry("Snacks", <<Str("chips")>>),
         Entry("Produce", <<Str("kale"), Str("apple")>>),
         Entry("Other", <<>>) >>,
      << Entry("Other", <<Str("ham"), Str("Zest")>>),
         Entry("Meat & Seafood", <<Str("salmon"), Str("cod")>>) >> }

MaxHead == 2
MaxTail == 20

\* Sentences of a video transcript, each with the punctuation and the space
\* that follow it: ones that open with a sequencing word, that hold one later
\* or inside another word, that hold a verb, that hold none, and short ones.
HeadSentences ==
    {Str("First chop it up. "), Str("We will then go home! "), Str("Snowy day today?! "),
     Str("Hello my friends... "), Str(" Add butter . "), Str("Sauté the leek. "),
     Str("Add salt. ")}

\* The i-th step of a recipe: "Add item ax", "Add item bx", ...
Step(i) == Str("Add item ") \o <<Lowercase[i]>> \o Str("x")

\* Steps i..n, each followed by ". ".
RECURSIVE Steps(_, _)
Steps(i, n) == IF i > n THEN <<>> ELSE Step(i) \o Str(". ") \o Steps(i + 1, n)

\* How many steps a transcript goes on with after its opening sentences.
TailLengths == {0, 1, 9, 10, 11, MaxTail}

Flatten(ws) == Join(ws, <<>>)

\* The transcripts handed to extract_cooking_instructions: up to MaxHead
\* opening sentences and then the steps 1..n.
Transcripts ==
    {Flatten(head) \o Steps(1, n) :
        head \in SeqsUpTo(HeadSentences, MaxHead), n \in TailLengths}

MaxVideos == 2

\* Video records as the collector builds them: with a transcript of ten
\* steps, with one that repeats four of those steps, without the transcript
\* key, without the video_id and channel_title keys, with an empty transcript.
Videos ==
    { << Entry("video_id", Str("a1")), Entry("title", Str("Cake")),
         Entry("channel_title", Str("Chef")), Entry("transcript", Steps(1, 10)) >>,
      << Entry("video_id", Str("b2")), Entry("title", Str("Cake again")),
         Entry("channel_title", Str("Cook")), Entry("transcript", Steps(7, 16)) >>,
      << Entry("video_id", Str("c3")), Entry("title", Str("Silent")),
         Entry("channel_title", Str("Chef")) >>,
      << Entry("title", Str("Short")),
         Entry("transcript",
               Str("First chop it up. Add salt. Then add the salt! Hello my friends... ")) >>,
      << Entry("video_id", Str("e5")), Entry("title", Str("Empty")),
         Entry("channel_title", Str("Cook")), Entry("transcript", <<>>) >> }

\* The dicts handed to generate_recipe_summary: the keys dish_name, videos
\* and ingredients, each present or missing.
RecipeData ==
    {name \o videos \o found :
        name \in {<<>>, <<Entry("dish_name", Str("cake"))>>},
        videos \in {<<>>} \cup {<<Entry("videos", vs)>> : vs \in SeqsUpTo(Videos, MaxVideos)},
        found \in {<<>>, <<Entry("ingredients", <<Str("Salmon"), Str("red onion")>>)>>}}

MaxDishes == 2

\* What get_recipe_data returns for a dish: a recipe with a video and
\* ingredients, one with ingredients that are all too short to keep, one
\* without videos and ingredients, and one with ingredients only.
Recipes ==
    { << Entry("dish_name", Str("cake")),
         Entry("videos", << << Entry("video_id", Str("d4")), Entry("title", Str("Short")),
                               Entry("transcript",
                                     Str("First chop it up. Then add the salt! ")) >> >>),
         Entry("ingredients", <<Str("Salmon"), Str("red onion")>>) >>,
      << Entry("dish_name", Str("soup")), Entry("videos", <<>>),
         Entry("ingredients", <<Str(" ab ")>>) >>,
      << Entry("dish_name", Str("rice")), Entry("videos", <<>>),
         Entry("ingredients", <<>>) >>,
      << Entry("dish_name", Str("stew")), Entry("videos", <<>>),
         Entry("ingredients", <<Str("ham"), Str("Salmon"), Str("ham")>>) >> }

\* The dishes asked for, each with the recipe the collector finds for it.
DishLists ==
    SeqsUpTo({[dish |-> Get(r, "dish_name"), recipe |-> r] : r \in Recipes}, MaxDishes)
        \ {<<>>}

AppInputs ==
    [use_youtube : BOOLEAN, dishes : DishLists, ai_list : AiLists]

NoCall == [use_youtube |-> FALSE, dishes |-> <<>>, ai_list |-> EmptyDict]

\* The lists list(set(...)) may build, one for each dish.
Listings(dishes) ==
    {l \in [DOMAIN dishes ->
                UNION {ListSet(all_instructions(dishes[i].recipe)) : i \in DOMAIN dishes}] :
        \A i \in DOMAIN dishes : l[i] \in ListSet(all_instructions(dishes[i].recipe))}

\* A recipe_data dict as objects: its video dicts, its list of videos, its
\* list of ingredients, then the dict itself; a missing key stays missing.
StoredRecipe(h, data) ==
    LET videos == DictGet(data, "videos", <<>>)
        h1 == h \o [i \in DOMAIN videos |->
                       [kind |-> "dict",
                        cells |-> [e \in DOMAIN videos[i] |->
                                      Val(videos[i][e].key, videos[i][e].value)]]]
        h2 == New(h1, "list", [i \in DOMAIN videos |-> Ptr("", Len(h) + i)])
        h3 == StoredList(h2, DictGet(data, "ingredients", <<>>))
    IN  New(h3, "dict",
            [e \in DOMAIN data |->
                CASE data[e].key = "videos" -> Ptr("videos", Len(h2))
                  [] data[e].key = "ingredients" -> Ptr("ingredients", Len(h3))
                  [] OTHER -> Val(data[e].key, data[e].value)])

NoMethod == [name |-> "none", args |-> <<>>]

\* The calls on objects: each method with its arguments on the heap; the
\* merges take two dicts, the same dict twice, or three dicts.
MethodCalls ==
    {[heap |-> StoredList(<<>>, xs), invoked |-> [name |-> "process", args |-> <<1>>]] :
        xs \in IngredientLists}
    \cup
    {[heap |-> StoredDict(StoredDict(<<>>, a), b),
      invoked |-> [name |-> "merge", args |-> <<Len(a) + 1, Len(a) + Len(b) + 2>>]] :
        a \in AiLists, b \in AiLists}
    \cup
    {[heap |-> StoredDict(<<>>, a),
      invoked |-> [name |-> "merge", args |-> <<Len(a) + 1, Len(a) + 1>>]] : a \in AiLists}
    \cup
    {[heap |-> StoredDict(StoredDict(StoredDict(<<>>, a), b), c),
      invoked |-> [name |-> "merge",
                args |-> <<Len(a) + 1, Len(a) + Len(b) + 2,
                           Len(a) + Len(b) + Len(c) + 3>>]] :
        a \in AiLists, b \in AiLists, c \in AiLists}
    \cup
    {[heap |-> StoredRecipe(<<>>, data),
      invoked |-> [name |-> "summary", args |-> <<Len(StoredRecipe(<<>>, data))>>]] :
        data \in Recipes \cup {<<Entry("dish_name", Str("cake"))>>, EmptyDict}}

-----------------------------------------------------------------------------
(* The calls                                                               *)

\* The merges made: call name -> the names of its arguments.  "A" is the
\* dict process_ingredients_list returned, "B" and "C" are the AI lists.
MergeCalls ==
    [ AB   |-> <<"A", "B">>,
      BA   |-> <<"B", "A">>,
      BC   |-> <<"B", "C">>,
      AB_C |-> <<"AB", "C">>,
      A_BC |-> <<"A", "BC">>,
      ABC  |-> <<"A", "B", "C">> ]

CallNames == {"A"} \cup DOMAIN MergeCalls

NoResults == [c \in CallNames |-> <<>>]
NoInputs == [n \in {"B", "C"} |-> EmptyDict]

Returned(name) == IF name \in DOMAIN inputs THEN TRUE ELSE results[name] # <<>>

\* The dict a name stands for.
Value(name) == IF name \in DOMAIN inputs THEN inputs[name] ELSE results[name][1]

ExtractQuantityAndUnit ==
    /\ parsed = <<>>
    /\ parsed' = <<extract_quantity_and_unit(ingredient)>>
    /\ UNCHANGED <<ingredient, category, ingredients, inputs, results,
                   instructionVars, summaryVars, appVars, heapVars>>

CategorizeIngredient ==
    /\ category = <<>>
    /\ category' = <<categorize_ingredient(ingredient)>>
    /\ UNCHANGED <<ingredient, parsed, ingredients, inputs, results,
                   instructionVars, summaryVars, appVars, heapVars>>

ProcessIngredientsList ==
    /\ results["A"] = <<>>
    /\ results' = [results EXCEPT !["A"] = <<process_ingredients_list(ingredients)>>]
    /\ UNCHANGED <<ingredient, parsed, category, ingredients, inputs,
                   instructionVars, summaryVars, appVars, heapVars>>

MergeShoppingLists ==
    \E call \in DOMAIN MergeCalls :
        /\ results[call] = <<>>
        /\ \A i \in DOMAIN MergeCalls[call] : Returned(MergeCalls[call][i])
        /\ results' = [results EXCEPT ![call] =
              <<merge_shopping_lists([i \in DOMAIN MergeCalls[call] |->
                                          Value(MergeCalls[call][i])])>>]
        /\ UNCHANGED <<ingredient, parsed, category, ingredients, inputs,
                       instructionVars, summaryVars, appVars, heapVars>>

ExtractCookingInstructions ==
    /\ instructions = <<>>
    /\ instructions' = <<extract_cooking_instructions(transcript)>>
    /\ UNCHANGED <<ingredient, parsed, category, ingredients, inputs, results,
                   transcript, summaryVars, appVars, heapVars>>

GenerateRecipeSummary ==
    /\ summary = <<>>
    /\ \E listed \in ListSet(all_instructions(recipe_data)) :
          summary' = <<generate_recipe_summary(recipe_data, listed)>>
    /\ UNCHANGED <<ingredient, parsed, category, ingredients, inputs, results,
                   instructionVars, recipe_data, appVars, heapVars>>

GenerateShoppingListWithAi ==
    /\ app_result = <<>>
    /\ \E listings \in Listings(app_inputs.dishes) :
          app_result' = <<generate_shopping_list_with_ai(app_inputs.use_youtube,
                              app_inputs.dishes, listings, app_inputs.ai_list)>>
    /\ UNCHANGED <<ingredient, parsed, category, ingredients, inputs, results,
                   instructionVars, summaryVars, app_inputs, heapVars>>

HeapProcessIngredientsList ==
    /\ invoked.name = "process"
    /\ ret = <<>>
    /\ LET done == heap_process_ingredients_list(heap, invoked.args[1])
       IN  heap' = done.heap /\ ret' = <<done.ret>>
    /\ UNCHANGED <<ingredient, parsed, category, ingredients, inputs, results,
                   instructionVars, summaryVars, appVars, invoked>>

HeapMergeShoppingLists ==
    /\ invoked.name = "merge"
    /\ ret = <<>>
    /\ LET done == heap_merge_shopping_lists(heap, invoked.args)
       IN  heap' = done.heap /\ ret' = <<done.ret>>
    /\ UNCHANGED <<ingredient, parsed, category, ingredients, inputs, results,
                   instructionVars, summaryVars, appVars, invoked>>

HeapGenerateRecipeSummary ==
    /\ invoked.name = "summary"
    /\ ret = <<>>
    /\ \E done \in heap_generate_recipe_summary(heap, invoked.args[1]) :
          heap' = done.heap /\ ret' = <<done.ret>>
    /\ UNCHANGED <<ingredient, parsed, category, ingredients, inputs, results,
                   instructionVars, summaryVars, appVars, invoked>>

\* The list pipeline: one ingredient list is processed, and its result is
\* merged with the AI lists.
Init ==
    /\ ingredient = <<>>
    /\ parsed = <<>>
    /\ category = <<>>
    /\ ingredients \in IngredientLists
    /\ inputs \in [{"B", "C"} -> AiLists]
    /\ results = NoResults
    /\ transcript = <<>>
    /\ instructions = <<>>
    /\ recipe_data = EmptyDict
    /\ summary = <<>>
    /\ app_inputs = NoCall
    /\ app_result = <<>>
    /\ heap = <<>>
    /\ invoked = NoMethod
    /\ ret = <<>>

Next == ProcessIngredientsList \/ MergeShoppingLists

Spec == Init /\ [][Next]_vars

\* The quantity/unit parser applied to one string.
InitParser ==
    /\ ingredient \in ParserInputs
    /\ parsed = <<>>
    /\ category = <<>>
    /\ ingredients = <<>>
    /\ inputs = NoInputs
    /\ results = NoResults
    /\ transcript = <<>>
    /\ instructions = <<>>
    /\ recipe_data = EmptyDict
    /\ summary = <<>>
    /\ app_inputs = NoCall
    /\ app_result = <<>>
    /\ heap = <<>>
    /\ invoked = NoMethod
    /\ ret = <<>>

NextParser == ExtractQuantityAndUnit

SpecParser == InitParser /\ [][NextParser]_vars

\* The category classifier applied to one string.
InitClassifier ==
    /\ ingredient \in ClassifierInputs
    /\ parsed = <<>>
    /\ category = <<>>
    /\ ingredients = <<>>
    /\ inputs = NoInputs
    /\ results = NoResults
    /\ transcript = <<>>
    /\ instructions = <<>>
    /\ recipe_data = EmptyDict
    /\ summary = <<>>
    /\ app_inputs = NoCall
    /\ app_result = <<>>
    /\ heap = <<>>
    /\ invoked = NoMethod
    /\ ret = <<>>

NextClassifier == CategorizeIngredient

SpecClassifier == InitClassifier /\ [][NextClassifier]_vars

\* The instruction extractor applied to one transcript.
InitInstructions ==
    /\ ingredient = <<>>
    /\ parsed = <<>>
    /\ category = <<>>
    /\ ingredients = <<>>
    /\ inputs = NoInputs
    /\ results = NoResults
    /\ transcript \in Transcripts
    /\ instructions = <<>>
    /\ recipe_data = EmptyDict
    /\ summary = <<>>
    /\ app_inputs = NoCall
    /\ app_result = <<>>
    /\ heap = <<>>
    /\ invoked = NoMethod
    /\ ret = <<>>

NextInstructions == ExtractCookingInstructions

SpecInstructions == InitInstructions /\ [][NextInstructions]_vars

\* The summary generator applied to one recipe.
InitSummary ==
    /\ ingredient = <<>>
    /\ parsed = <<>>
    /\ category = <<>>
    /\ ingredients = <<>>
    /\ inputs = NoInputs
    /\ results = NoResults
    /\ transcript = <<>>
    /\ instructions = <<>>
    /\ recipe_data \in RecipeData
    /\ summary = <<>>
    /\ app_inputs = NoCall
    /\ app_result = <<>>
    /\ heap = <<>>
    /\ invoked = NoMethod
    /\ ret = <<>>

NextSummary == GenerateRecipeSummary

SpecSummary == InitSummary /\ [][NextSummary]_vars

\* One run of the application's list generation.
InitApp ==
    /\ ingredient = <<>>
    /\ parsed = <<>>
    /\ category = <<>>
    /\ ingredients = <<>>
    /\ inputs = NoInputs
    /\ results = NoResults
    /\ transcript = <<>>
    /\ instructions = <<>>
    /\ recipe_data = EmptyDict
    /\ summary = <<>>
    /\ app_inputs \in AppInputs
    /\ app_result = <<>>
    /\ heap = <<>>
    /\ invoked = NoMethod
    /\ ret = <<>>

NextApp == GenerateShoppingListWithAi

SpecApp == InitApp /\ [][NextApp]_vars

\* One method called on list and dict objects.
InitHeap ==
    /\ ingredient = <<>>
    /\ parsed = <<>>
    /\ category = <<>>
    /\ ingredients = <<>>
    /\ inputs = NoInputs
    /\ results = NoResults
    /\ transcript = <<>>
    /\ instructions = <<>>
    /\ recipe_data = EmptyDict
    /\ summary = <<>>
    /\ app_inputs = NoCall
    /\ app_result = <<>>
    /\ \E m \in MethodCalls : heap = m.heap /\ invoked = m.invoked
    /\ ret = <<>>

NextHeap ==
    HeapProcessIngredientsList \/ HeapMergeShoppingLists \/ HeapGenerateRecipeSummary

SpecHeap == InitHeap /\ [][NextHeap]_vars

-----------------------------------------------------------------------------
(* Properties                                                              *)

StrictlyAscending(items) ==
    \A i \in 1..(Len(items) - 1) : StrLess(items[i], items[i + 1])

NoRepeats(items) ==
    \A i, j \in DOMAIN items : i # j => items[i] # items[j]

\* The items a dict holds under category k.
Items(d, k) == IF k \in Keys(d) THEN Range(Get(d, k)) ELSE {}

\* Two dicts with the same keys and the same list under each key.
SameContent(d1, d2) ==
    /\ Keys(d1) = Keys(d2)
    /\ \A k \in Keys(d1) : Get(d1, k) = Get(d2, k)

Matching(s) ==
    {food_categories[c].key : c \in
        {c \in DOMAIN food_categories :
            \E k \in DOMAIN food_categories[c].value :
                Contains(Lower(s), food_categories[c].value[k])}}

\* The first element of the sequence order that is in S.
FirstIn(order, S) ==
    order[CHOOSE i \in DOMAIN order :
            /\ order[i] \in S
            /\ \A j \in DOMAIN order : order[j] \in S => i <= j]

\* The tie-break order C2 states.
ClaimedTieBreakOrder ==
    << "Produce", "Meat & Seafood", "Dairy & Eggs", "Pantry Staples", "Bakery",
       "Condiments", "Frozen" >>

\* The tie-break order of the lexicon.
LexiconTieBreakOrder ==
    << "Produce", "Meat & Seafood", "Dairy & Eggs", "Pantry Staples", "Frozen",
       "Bakery", "Condiments" >>

\* C2 as stated: a string with keywords of two or more categories gets the one
\* that comes first in Produce, Meat & Seafood, Dairy & Eggs, Pantry Staples,
\* Bakery, Condiments, Frozen.
C2_TieBreakAsClaimed ==
    (category # <<>> /\ Cardinality(Matching(ingredient)) >= 2) =>
        category[1] = FirstIn(ClaimedTieBreakOrder, Matching(ingredient))

\* C2 amended: a string with keywords of two or more categories gets the one
\* that comes first in Produce, Meat & Seafood, Dairy & Eggs, Pantry Staples,
\* Frozen, Bakery, Condiments.
C2_TieBreakByLexiconOrder ==
    (category # <<>> /\ Cardinality(Matching(ingredient)) >= 2) =>
        category[1] = FirstIn(LexiconTieBreakOrder, Matching(ingredient))

\* C2 witness: a string with a Bakery and a Frozen keyword was classified
\* as Frozen.
C2_Witness ==
    /\ category = <<"Frozen">>
    /\ "Bakery" \in Matching(ingredient)
    /\ "Frozen" \in Matching(ingredient)

\* The characters \d matches.
DigitChars == Range(Str("0123456789"))

\* s is its own normal form: clean_ingredient leaves it as it is.
IsCleaned(s) == clean_ingredient(s) = s

StartsWith(s, prefix) ==
    Len(s) >= Len(prefix) /\ SubSeq(s, 1, Len(prefix)) = prefix

After(s, prefix) == SubSeq(s, Len(prefix) + 1, Len(s))

\* The text up to the first space.
FirstWord(s) ==
    LET spaces == {i \in DOMAIN s : s[i] = " "}
    IN  IF spaces = {} THEN s
        ELSE SubSeq(s, 1, (CHOOSE i \in spaces : \A j \in spaces : i <= j) - 1)

\* Item text without an optional leading "of".
WithoutOf(s) ==
    IF StartsWith(s, Str("of ")) /\ Len(s) > Len(Str("of ")) THEN After(s, Str("of ")) ELSE s

\* C3 as stated: a cleaned string made of a numeric quantity, a space, a word
\* of the unit vocabulary, a space and item text (more than a bare "of") is
\* parsed into that quantity, that whole unit word, and the item text minus
\* a leading "of".
C3_WholeUnitWord ==
    parsed # <<>> =>
        \A q \in QuantityTexts, u \in Range(units) :
            LET prefix == q \o Str(" ") \o u \o Str(" ")
            IN  (/\ IsCleaned(ingredient)
                 /\ StartsWith(ingredient, prefix)
                 /\ Len(ingredient) > Len(prefix)
                 /\ After(ingredient, prefix) # Str("of")) =>
                    parsed[1] = [quantity |-> q, unit |-> u,
                                 item |-> WithoutOf(After(ingredient, prefix))]

\* C4 as stated: a cleaned string made of a numeric quantity, a space and text
\* whose first word is no word of the unit vocabulary is parsed into that
\* quantity, the empty unit, and the whole text after the space.
C4_NoUnitWord ==
    parsed # <<>> =>
        \A q \in QuantityTexts :
            LET prefix == q \o Str(" ")
            IN  (/\ IsCleaned(ingredient)
                 /\ StartsWith(ingredient, prefix)
                 /\ Len(ingredient) > Len(prefix)
                 /\ FirstWord(After(ingredient, prefix)) \notin Range(units)) =>
                    parsed[1] = [quantity |-> q, unit |-> <<>>,
                                 item |-> After(ingredient, prefix)]

IsStr(s) == DOMAIN s = 1..Len(s) /\ \A i \in DOMAIN s : s[i] \in Chars

\* C5: extract_quantity_and_unit returns a triple of strings for every string,
\* and for a string that does not begin with a digit the triple is
\* ("", "", the string as given).
C5_NeverFails ==
    parsed # <<>> =>
        /\ DOMAIN parsed[1] = {"quantity", "unit", "item"}
        /\ IsStr(parsed[1].quantity) /\ IsStr(parsed[1].unit) /\ IsStr(parsed[1].item)
        /\ (ingredient = <<>> \/ ingredient[1] \notin DigitChars) =>
              parsed[1] = [quantity |-> <<>>, unit |-> <<>>, item |-> ingredient]

\* C5 witness: "a Tbsp of salt", a string with a unit word, an upper-case
\* letter and no leading digit, has been parsed.
C5_Witness ==
    /\ parsed # <<>>
    /\ ingredient = Str("a Tbsp of salt")

\* C6 as stated: every string containing "salmon" is Meat & Seafood.
C6_SalmonAlwaysMeat ==
    (category # <<>> /\ Contains(ingredient, Str("salmon"))) =>
        category[1] = "Meat & Seafood"

\* C6 amended: every string that contains "salmon" and no Produce keyword is
\* Meat & Seafood.
C6_SalmonWithoutProduce ==
    (/\ category # <<>>
     /\ Contains(ingredient, Str("salmon"))
     /\ "Produce" \notin Matching(ingredient)) =>
        category[1] = "Meat & Seafood"

\* C6 witness: a string with "salmon" and a keyword of a later category, and
\* no Produce keyword, was classified.
C6_Witness ==
    /\ category = <<"Meat & Seafood">>
    /\ Contains(ingredient, Str("salmon"))
    /\ Matching(ingredient) \cap {"Bakery", "Frozen", "Condiments"} # {}
    /\ "Produce" \notin Matching(ingredient)

\* C7: categorize_ingredient returns one of the eight categories for every
\* string, "Other" exactly when no keyword is a case-insensitive substring of
\* it, and "Produce" whenever the string contains "onion".
C7_TotalAndOther ==
    category # <<>> =>
        /\ Len(category) = 1
        /\ category[1] \in Range(category_order)
        /\ category[1] = "Other" <=> Matching(ingredient) = {}
        /\ Contains(ingredient, Str("onion")) => category[1] = "Produce"

\* C7 witness: a string with "onion" and an upper-case keyword of another
\* category was classified.
C7_Witness ==
    /\ category = <<"Produce">>
    /\ Contains(ingredient, Str("onion"))
    /\ Contains(ingredient, Str("MILK"))

\* C8: process_ingredients_list keeps an ingredient exactly when its
\* normalized form has at least 3 characters: every item of the result has 3
\* or more characters, an ingredient normalizing to 2 or fewer is under no
\* category, and one normalizing to 3 or more is, in normalized form -
\* trimmed, lower-cased, single spaces - under exactly the category
\* categorize_ingredient returns for it.
C8_FilterBoundary ==
    results["A"] # <<>> =>
        LET result == results["A"][1]
        IN  /\ \A k \in Keys(result) : \A x \in Items(result, k) : Len(x) >= 3
            /\ \A i \in DOMAIN ingredients :
                  LET norm == clean_ingredient(ingredients[i])
                      under == {k \in Keys(result) : norm \in Items(result, k)}
                  IN  /\ norm = Lower(norm)
                      /\ norm = Strip(norm)
                      /\ \A j \in DOMAIN norm :
                            norm[j] \in Whitespace =>
                                norm[j] = " " /\ norm[j + 1] \notin Whitespace
                      /\ Len(norm) <= 2 => under = {}
                      /\ Len(norm) >= 3 => under = {categorize_ingredient(norm)}

\* C8 witness: a list with an ingredient normalizing to 2 characters and one
\* normalizing to 3 has been processed.
C8_Witness ==
    /\ results["A"] # <<>>
    /\ \E i \in DOMAIN ingredients : Len(clean_ingredient(ingredients[i])) = 2
    /\ \E i \in DOMAIN ingredients : Len(clean_ingredient(ingredients[i])) = 3

\* m holds, for the lists, every category of any of them, with the sorted set
\* union of their items under it.
IsSortedUnion(m, lists) ==
    /\ Keys(m) = UNION {Keys(lists[i]) : i \in DOMAIN lists}
    /\ NoRepeats(KeyList(m))
    /\ \A k \in Keys(m) :
          /\ StrictlyAscending(Get(m, k))
          /\ Range(Get(m, k)) = UNION {Items(lists[i], k) : i \in DOMAIN lists}

\* C9: merge(A, B) and merge(B, A) have the same categories and the same item
\* sequence under each, the sorted set union of A's and B's items.
C9_MergeCommutative ==
    /\ results["AB"] # <<>> => IsSortedUnion(Value("AB"), <<Value("A"), Value("B")>>)
    /\ results["BA"] # <<>> => IsSortedUnion(Value("BA"), <<Value("B"), Value("A")>>)
    /\ (results["AB"] # <<>> /\ results["BA"] # <<>>) =>
          SameContent(Value("AB"), Value("BA"))

\* C9 witness: both merges were made of two lists that share a category with
\* different items, each with a category the other lacks, and the two
\* results list their categories in different orders.
C9_Witness ==
    /\ results["AB"] # <<>>
    /\ results["BA"] # <<>>
    /\ \E k \in Keys(Value("A")) \cap Keys(Value("B")) :
          Items(Value("A"), k) # Items(Value("B"), k)
    /\ Keys(Value("A")) \ Keys(Value("B")) # {}
    /\ Keys(Value("B")) \ Keys(Value("A")) # {}
    /\ KeyList(Value("AB")) # KeyList(Value("BA"))

\* C10: merge(merge(A, B), C), merge(A, merge(B, C)) and merge(A, B, C) have
\* the same categories and the same item sequence under each.
C10_MergeAssociative ==
    /\ (results["AB_C"] # <<>> /\ results["A_BC"] # <<>>) =>
          SameContent(Value("AB_C"), Value("A_BC"))
    /\ (results["AB_C"] # <<>> /\ results["ABC"] # <<>>) =>
          SameContent(Value("AB_C"), Value("ABC"))
    /\ (results["A_BC"] # <<>> /\ results["ABC"] # <<>>) =>
          SameContent(Value("A_BC"), Value("ABC"))

\* C10 witness: the three merges were made of three different non-empty
\* lists, the third bringing items the first two lack.
C10_Witness ==
    /\ results["AB_C"] # <<>>
    /\ results["A_BC"] # <<>>
    /\ results["ABC"] # <<>>
    /\ Value("A") # EmptyDict /\ inputs["B"] # EmptyDict /\ inputs["C"] # EmptyDict
    /\ inputs["B"] # inputs["C"]
    /\ ~SameContent(Value("AB"), Value("ABC"))

\* The characters that end a sentence.
SentenceEnds == {".", "!", "?"}

\* The positions where a piece of text begins: the first position, and
\* every position after a run of sentence-ending characters.
PieceStarts(text) ==
    {a \in 1..(Len(text) + 1) :
        \/ a = 1
        \/ /\ text[a - 1] \in SentenceEnds
           /\ (a > Len(text) \/ text[a] \notin SentenceEnds)}

\* The piece of text that begins at a, up to the next sentence-ending
\* character or the end of text, trimmed.
TrimmedPiece(text, a) ==
    LET ends == {j \in a..Len(text) : text[j] \in SentenceEnds}
        b == IF ends = {} THEN Len(text)
             ELSE (CHOOSE j \in ends : \A j2 \in ends : j <= j2) - 1
    IN  Strip(SubSeq(text, a, b))

SequencingWords ==
    {Str("first"), Str("then"), Str("next"), Str("after"), Str("now"), Str("finally")}

VerbWords ==
    {Str("heat"), Str("cook"), Str("add"), Str("mix"), Str("stir"), Str("pour"),
     Str("place"), Str("put"), Str("season"), Str("serve"), Str("preheat"),
     Str("boil"), Str("simmer"), Str("sauté"), Str("fry"), Str("bake"),
     Str("roast"), Str("grill")}

HasWord(sentence, words) == \E w \in words : Contains(Lower(sentence), w)

\* A qualifying sentence: longer than 10 characters and holding one of the
\* words of the instruction patterns.
Qualifies(sentence) ==
    Len(sentence) > 10 /\ HasWord(sentence, SequencingWords \cup VerbWords)

QualifyingStarts(text) == {a \in PieceStarts(text) : Qualifies(TrimmedPiece(text, a))}

\* The k-th qualifying sentence of text, in transcript order.
QualifyingSentence(text, k) ==
    LET Q == QualifyingStarts(text)
    IN  TrimmedPiece(text, CHOOSE a \in Q : Cardinality({b \in Q : b < a}) = k - 1)

\* C11: extract_cooking_instructions returns the first min(10, n) of the n
\* qualifying sentences of the transcript, in transcript order; every entry
\* is a trimmed piece longer than 10 characters; with 20 qualifying
\* sentences the result has exactly 10 entries.
C11_FirstTenInOrder ==
    instructions # <<>> =>
        LET got == instructions[1]
            n == Cardinality(QualifyingStarts(transcript))
        IN  /\ Len(got) = (IF n < 10 THEN n ELSE 10)
            /\ \A k \in 1..Len(got) :
                  /\ got[k] = QualifyingSentence(transcript, k)
                  /\ Len(got[k]) > 10
            /\ n = 20 => Len(got) = 10

\* C11 witness: a transcript with 20 qualifying sentences and a piece of
\* exactly 10 characters that holds a verb gave exactly 10 instructions.
C11_Witness ==
    /\ instructions # <<>>
    /\ Cardinality(QualifyingStarts(transcript)) = 20
    /\ \E a \in PieceStarts(transcript) :
          /\ Len(TrimmedPiece(transcript, a)) = 10
          /\ HasWord(TrimmedPiece(transcript, a), VerbWords)
    /\ Len(instructions[1]) = 10

\* The value the returned summary holds under key k.
SummaryField(k) == Get(summary[1], k)

\* The video records of the recipe handed to generate_recipe_summary.
InputVideos == IF "videos" \in Keys(recipe_data) THEN Get(recipe_data, "videos") ELSE <<>>

HasTranscript(video) == "transcript" \in Keys(video) /\ Get(video, "transcript") # <<>>

\* The instructions extract_cooking_instructions returns for the videos that
\* have a non-empty transcript, video by video.
ExtractedPerVideo ==
    [v \in {u \in DOMAIN InputVideos : HasTranscript(InputVideos[u])} |->
        extract_cooking_instructions(Get(InputVideos[v], "transcript"))]

\* C12: the summary's cooking_instructions has at most 15 entries, no entry
\* twice, and every entry is an instruction extract_cooking_instructions
\* returned for an input video with a non-empty transcript.
C12_InstructionsCappedDistinct ==
    summary # <<>> =>
        LET cooking == SummaryField("cooking_instructions")
            extracted == UNION {Range(ExtractedPerVideo[v]) : v \in DOMAIN ExtractedPerVideo}
        IN  /\ Len(cooking) <= 15
            /\ NoRepeats(cooking)
            /\ Range(cooking) \subseteq extracted

\* C12 witness: two videos gave 16 different instructions between them, some
\* of them twice, and the summary holds 15.
C12_Witness ==
    /\ summary # <<>>
    /\ Len(SummaryField("cooking_instructions")) = 15
    /\ Cardinality(UNION {Range(ExtractedPerVideo[v]) : v \in DOMAIN ExtractedPerVideo}) = 16
    /\ \E v, w \in DOMAIN ExtractedPerVideo :
          v # w /\ Range(ExtractedPerVideo[v]) \cap Range(ExtractedPerVideo[w]) # {}

\* The order in which the categories are enumerated.
EnumerationOrder ==
    << "Produce", "Meat & Seafood", "Dairy & Eggs", "Pantry Staples", "Bakery",
       "Condiments", "Frozen", "Other" >>

EnumerationPosition(k) == CHOOSE i \in DOMAIN EnumerationOrder : EnumerationOrder[i] = k

\* The keys of d come in the enumeration order.
InEnumerationOrder(d) ==
    \A i, j \in DOMAIN d :
        i < j => EnumerationPosition(d[i].key) < EnumerationPosition(d[j].key)

\* C13: every dict process_ingredients_list or merge_shopping_lists returned
\* with categories of the enumeration lists them in the enumeration order
\* Produce, Meat & Seafood, Dairy & Eggs, Pantry Staples, Bakery, Condiments,
\* Frozen, Other, whatever the order of the inputs.
C13_FixedCategoryOrder ==
    \A c \in CallNames :
        (results[c] # <<>> /\ Keys(results[c][1]) \subseteq Range(EnumerationOrder)) =>
            InEnumerationOrder(results[c][1])

\* The sentence holds a sequencing word, but not at its start, and holds no
\* action or cooking-method verb.
SequencingWordLaterOnly(sentence) ==
    /\ HasWord(sentence, SequencingWords)
    /\ \A w \in SequencingWords : ~StartsWith(Lower(sentence), w)
    /\ ~HasWord(sentence, VerbWords)

\* The sentence holds a sequencing word as a word of its own.
HasSequencingWordOfItsOwn(sentence) ==
    \E w \in SequencingWords :
        Contains(Str(" ") \o Lower(sentence) \o Str(" "), Str(" ") \o w \o Str(" "))

\* C14 as stated: no sentence of the result holds a sequencing word only in
\* a later position while holding none of the verbs.
C14_SequencingWordAtStartOnly ==
    instructions # <<>> =>
        \A k \in DOMAIN instructions[1] :
            ~(/\ SequencingWordLaterOnly(instructions[1][k])
              /\ HasSequencingWordOfItsOwn(instructions[1][k]))

\* C14: a sequencing word qualifies a sentence wherever it occurs: a sentence
\* longer than 10 characters that holds a sequencing word only in a later
\* position and none of the verbs is in the result whenever fewer than 10
\* qualifying sentences precede it in the transcript.
C14_SequencingWordAnywhere ==
    instructions # <<>> =>
        \A a \in PieceStarts(transcript) :
            LET sentence == TrimmedPiece(transcript, a)
                earlier == {b \in QualifyingStarts(transcript) : b < a}
            IN  ( /\ Len(sentence) > 10
                  /\ SequencingWordLaterOnly(sentence)
                  /\ Cardinality(earlier) < 10 )
                => \E k \in DOMAIN instructions[1] : instructions[1][k] = sentence

\* C14 witness: the result holds a sentence with a sequencing word in the
\* middle of the sentence and one with a sequencing word inside another word.
C14_Witness ==
    /\ instructions # <<>>
    /\ \E k \in DOMAIN instructions[1] :
          /\ SequencingWordLaterOnly(instructions[1][k])
          /\ Contains(Lower(instructions[1][k]), Str(" then "))
    /\ \E k \in DOMAIN instructions[1] :
          /\ SequencingWordLaterOnly(instructions[1][k])
          /\ Contains(Lower(instructions[1][k]), Str("snowy"))

\* C15: the shopping_list generate_shopping_list_with_ai returns is an output
\* of merge_shopping_lists (merging it alone gives it back), every
\* category's items are strictly sorted without duplicates, and no category
\* has an empty item sequence.
C15_FinalListWellFormed ==
    app_result # <<>> =>
        LET final == app_result[1].shopping_list
        IN  /\ merge_shopping_lists(<<final>>) = final
            /\ \A e \in DOMAIN final :
                  /\ StrictlyAscending(final[e].value)
                  /\ final[e].value # <<>>

\* The input videos that have a non-empty transcript, by position.
Transcribed == {v \in DOMAIN InputVideos : HasTranscript(InputVideos[v])}

\* The video_id of an input video, empty when the key is missing.
IdOf(video) == IF "video_id" \in Keys(video) THEN Get(video, "video_id") ELSE <<>>

\* C16: total_videos is the number of input video records; video_tutorials
\* holds one record for each input video with a non-empty transcript, in
\* input order, with url = "https://www.youtube.com/watch?v=" + video_id
\* (video_id empty when the key is missing); so the tutorials never
\* outnumber total_videos and are fewer when a video has no transcript.
C16_TutorialPerTranscribedVideo ==
    summary # <<>> =>
        LET tutorials == SummaryField("video_tutorials")
            total == SummaryField("total_videos")
        IN  /\ total = Len(InputVideos)
            /\ Len(tutorials) = Cardinality(Transcribed)
            /\ \A k \in DOMAIN tutorials :
                  LET v == CHOOSE v \in Transcribed :
                               Cardinality({u \in Transcribed : u < v}) = k - 1
                  IN  /\ Get(tutorials[k], "video_id") = IdOf(InputVideos[v])
                      /\ Get(tutorials[k], "url") =
                            Str("https://www.youtube.com/watch?v=") \o IdOf(InputVideos[v])
                      /\ "title" \in Keys(InputVideos[v]) =>
                            Get(tutorials[k], "title") = Get(InputVideos[v], "title")
            /\ Len(tutorials) <= total
            /\ Transcribed # DOMAIN InputVideos => Len(tutorials) < total

\* C16 witness: of two input videos the first has no transcript and the
\* second has one but no video_id; the summary counts two videos and holds
\* the one tutorial, whose url ends at "v=".
C16_Witness ==
    /\ summary # <<>>
    /\ SummaryField("total_videos") = 2
    /\ Transcribed = {2}
    /\ "video_id" \notin Keys(InputVideos[2])
    /\ Len(SummaryField("video_tutorials")) = 1
    /\ Get(SummaryField("video_tutorials")[1], "url") = Str("https://www.youtube.com/watch?v=")

\* The addresses of the objects that can be reached from the objects at S.
RECURSIVE Reachable(_, _)
Reachable(h, S) ==
    LET next == S \cup (UNION {{h[a].cells[i].ref : i \in DOMAIN h[a].cells} : a \in S} \ {0})
    IN  IF next = S THEN S ELSE Reachable(h, next)

\* The objects passed to the method: its arguments and what they hold.
ArgumentObjects == Reachable(heap, Range(invoked.args))

\* C17: process_ingredients_list, merge_shopping_lists and
\* generate_recipe_summary leave every object passed to them as it was, and
\* the mapping they return shares no list or dict with those objects, so
\* that a later change to it cannot reach them.
C17_InputsNotMutated ==
    [][ /\ \A a \in ArgumentObjects : heap'[a] = heap[a]
        /\ ret' # <<>> => Reachable(heap', {ret'[1]}) \cap ArgumentObjects = {} ]_vars

\* C17 witness: a merge of two different dicts that both hold a category
\* with items returned a dict whose list for that category differs from the
\* first argument's, made of objects that are none of the arguments'.
C17_Witness ==
    /\ ret # <<>>
    /\ invoked.name = "merge"
    /\ invoked.args[1] # invoked.args[2]
    /\ \E k \in {"Produce", "Other", "Meat & Seafood"} :
          /\ HasKey(heap, invoked.args[1], k)
          /\ HasKey(heap, invoked.args[2], k)
          /\ Strs(heap, Item(heap, invoked.args[1], k).ref) # <<>>
          /\ Strs(heap, Item(heap, invoked.args[2], k).ref) # <<>>
          /\ Strs(heap, Item(heap, ret[1], k).ref)
                # Strs(heap, Item(heap, invoked.args[1], k).ref)
    /\ Reachable(heap, {ret[1]}) \cap ArgumentObjects = {}

=============================================================================
